---- MODULE Spec2Model ----
(***************************************************************************)
(* msdatacurator: the archive walker (PRIDEUtility) and the metadata       *)
(* resolver (FTPDirectory).                                                *)
(*                                                                         *)
(* The walker is modelled call by call and, inside a call, FTP operation   *)
(* by FTP operation: every remote or local I/O operation is one step whose *)
(* outcome (success with a server-chosen answer, or an error) the          *)
(* environment picks.  The resolver's property accessors are modelled as   *)
(* one step each; the outcomes of the requests they make are drawn with \E.*)
(*                                                                         *)
(* File names are sequences of one-character strings, so that lower() and  *)
(* endswith() are computed and not assumed.  Remote directory paths are    *)
(* sequences of path components; os.path.basename is the last component.   *)
(***************************************************************************)
EXTENDS Naturals, Sequences, FiniteSets

(* ------------------------------ bounds --------------------------------- *)

\* longest listing the FTP server returns for a dataset directory or for its
\* generated subdirectory
MaxListing == 2

(* ------------------------- strings as sequences ------------------------ *)

Range(s) == {s[i] : i \in 1..Len(s)}

\* all sequences without repetition over S of length at most n
RECURSIVE DistinctSeqs(_, _)
DistinctSeqs(S, n) ==
    IF n = 0 THEN {<<>>}
    ELSE LET shorter == DistinctSeqs(S, n - 1)
             longest == {t \in shorter : Len(t) = n - 1}
         IN  shorter \cup
             UNION {{Append(t, x) : x \in S \ Range(t)} : t \in longest}

LowerChar(c) ==
    CASE c = "A" -> "a" [] c = "D" -> "d" [] c = "E" -> "e" [] c = "F" -> "f"
      [] c = "G" -> "g" [] c = "M" -> "m" [] c = "N" -> "n" [] c = "P" -> "p"
      [] c = "R" -> "r" [] c = "T" -> "t" [] c = "W" -> "w" [] c = "X" -> "x"
      [] c = "Z" -> "z" [] OTHER -> c

UpperChar(c) ==
    CASE c = "a" -> "A" [] c = "d" -> "D" [] c = "e" -> "E" [] c = "f" -> "F"
      [] c = "g" -> "G" [] c = "m" -> "M" [] c = "n" -> "N" [] c = "p" -> "P"
      [] c = "r" -> "R" [] c = "t" -> "T" [] c = "w" -> "W" [] c = "x" -> "X"
      [] c = "z" -> "Z" [] OTHER -> c

\* str.lower() and str.upper()
Lower(s) == [i \in 1..Len(s) |-> LowerChar(s[i])]
Upper(s) == [i \in 1..Len(s) |-> UpperChar(s[i])]

\* str.endswith(suffix)
EndsWith(s, suffix) ==
    /\ Len(s) >= Len(suffix)
    /\ SubSeq(s, Len(s) - Len(suffix) + 1, Len(s)) = suffix

GENERATED == <<"g","e","n","e","r","a","t","e","d">>
DOT_RAW == <<".","r","a","w">>
DOT_MGF == <<".","m","g","f">>
DOT_MGF_GZ == <<".","m","g","f",".","g","z">>
FMT_RAW == <<"r","a","w">>
FMT_MGF == <<"m","g","f">>
FMT_MGF_GZ == <<"m","g","f",".","g","z">>

(* --------------------------- the environment --------------------------- *)

\* entries a dataset directory may hold
DirNames == {GENERATED, <<"G","e","n","e","r","a","t","e","d">>}
FileNames ==
    { <<"a">> \o DOT_RAW, <<"a">> \o DOT_MGF, <<"a">> \o DOT_MGF_GZ,
      <<"b",".","M","G","F",".","G","Z">> }

\* what nlst may answer for a dataset directory, and for its generated
\* subdirectory
TopListings == DistinctSeqs(DirNames \cup FileNames, MaxListing)
GeneratedListings == DistinctSeqs(FileNames, MaxListing)

\* the file_format arguments tried
Formats ==
    { FMT_RAW, FMT_MGF, FMT_MGF_GZ, <<"M","G","F",".","G","Z">>, <<"e","x","e">> }

\* the dataset_identifier arguments tried; only the first is on the server
ArchivedIds == {"PRD000817"}
Identifiers == ArchivedIds \cup {"PXD000001"}

YearNames == {"2009", "2010"}
IndexNames == {"01", "02"}

ftp_path == <<"pride", "data", "archive">>

YearListings == DistinctSeqs(YearNames, Cardinality(YearNames))
IndexListings(year_path) ==
    {[i \in 1..Len(s) |-> Append(year_path, s[i])] :
        s \in DistinctSeqs(IndexNames, Cardinality(IndexNames))}
DatasetListings(index_path) ==
    {[i \in 1..Len(s) |-> Append(index_path, s[i])] :
        s \in DistinctSeqs(ArchivedIds, Cardinality(ArchivedIds))}

\* os.path.basename of a remote path
Basename(path) == path[Len(path)]

(* ------------------------------- state --------------------------------- *)

VARIABLES
    \* PRIDEUtility instance and the local file system
    dataset_paths,      \* [isNone, items]: None, or the dict as a set of [key, path]
    localDirs,          \* local directories that exist (named after identifiers)
    \* the call in progress, or the last one made
    pc,                 \* "idle", or the step the call in progress is at
    call,               \* "none", "list_datasets" or "download_dataset"
    ret,                \* "none", "True", "False" or "dataset_paths"
    raised,             \* the exception that left the call, or "none"
    printed,            \* the error the call printed, or "none"
    ftp,                \* "closed" or "open": the FTP session of the call
    sessions,           \* FTP sessions the call has opened
    \* locals of _load_dataset_paths
    years, yearPos, indices, indexPos,
    attempted,          \* index paths an nlst was issued for
    found,              \* dataset paths the server listed
    \* locals of download_dataset
    dataset_identifier, file_format, dataset_path,
    all_files, scan, files, filtered_files, next,
    retrLog,            \* the remote names of the RETR commands issued, in order
    written,            \* local files the call has created and not removed
    failedAt            \* position in filtered_files of the file that failed, or 0

instVars == <<dataset_paths, localDirs>>
callVars == <<pc, call, ret, raised, printed, ftp, sessions>>
loadVars == <<years, yearPos, indices, indexPos, attempted, found>>
downVars == <<dataset_identifier, file_format, dataset_path, all_files, scan,
              files, filtered_files, next, retrLog, written, failedAt>>
walkerVars == <<instVars, callVars, loadVars, downVars>>

(* state of an FTPDirectory instance *)

VARIABLES
    project,            \* "none", "constructed", or "rejected" (__init__ raised)
    pride_id,           \* the argument of the constructor
    id, fetch,          \* self.id, self.fetch
    local,              \* "unset", or "set": self.local is a directory
    cache,              \* [exists, body]: the file .pride-metadata in self.local
    _metadata,          \* [isNone, body]
    _url,               \* the stored URL, <<>> for None
    \* the last property access
    access,             \* "none", "__init__", "metadata" or "url"
    r_raised,           \* the exception that left it, or "none"
    r_url,              \* the URL the url property returned, <<>> if none
    m_first,            \* _metadata was None when the access began
    m_ret,              \* [isNone, body]: what the metadata property returned
    cacheBefore,        \* the cache file when the access began
    lastGet,            \* [kind, body]: the REST GET of the access, kind "none" if none
    probes,             \* the URLs probed by the access, in order
    outcomes            \* the outcome of each probe

resolverVars == <<project, pride_id, id, fetch, local, cache, _metadata, _url,
                  access, r_raised, r_url, m_first, m_ret, cacheBefore, lastGet,
                  probes, outcomes>>

Unbound == [bound |-> FALSE, source |-> "none", val |-> <<>>]

\* PRIDEUtility.__init__
WalkerInit ==
    /\ dataset_paths = [isNone |-> TRUE, items |-> {}]
    /\ localDirs = {}
    /\ pc = "idle" /\ call = "none" /\ ret = "none" /\ raised = "none"
    /\ printed = "none" /\ ftp = "closed" /\ sessions = 0
    /\ years = <<>> /\ yearPos = 0 /\ indices = <<>> /\ indexPos = 0
    /\ attempted = {} /\ found = {}
    /\ dataset_identifier = "" /\ file_format = <<>> /\ dataset_path = <<>>
    /\ all_files = <<>> /\ scan = 0 /\ files = Unbound /\ filtered_files = <<>>
    /\ next = 0 /\ retrLog = <<>> /\ written = {} /\ failedAt = 0

\* a call starts with fresh locals
FreshLoad ==
    /\ years' = <<>> /\ yearPos' = 0 /\ indices' = <<>> /\ indexPos' = 0
    /\ attempted' = {} /\ found' = {}

FreshDown(ident, fmt, path) ==
    /\ dataset_identifier' = ident /\ file_format' = fmt /\ dataset_path' = path
    /\ all_files' = <<>> /\ scan' = 0 /\ files' = Unbound
    /\ filtered_files' = <<>> /\ next' = 0 /\ retrLog' = <<>> /\ written' = {}
    /\ failedAt' = 0

\* the call returns value v, having printed p; leaving the with block closes
\* the session
Return(v, p) ==
    /\ pc' = "idle" /\ ret' = v /\ printed' = p /\ ftp' = "closed"
    /\ UNCHANGED <<call, raised, sessions>>

\* exception e leaves the call; leaving the with block closes the session
Raise(e) ==
    /\ pc' = "idle" /\ raised' = e /\ ftp' = "closed"
    /\ UNCHANGED <<call, ret, printed, sessions>>

Goto(step) ==
    /\ pc' = step
    /\ UNCHANGED <<call, ret, raised, printed, ftp, sessions>>

\* FTP(self.ftp_host): the constructor connects
Connect(step) ==
    /\ pc' = step /\ ftp' = "open" /\ sessions' = sessions + 1
    /\ UNCHANGED <<call, ret, raised, printed>>

(* ---------------------------- list_datasets ---------------------------- *)

\* dict.__setitem__: the last path seen for a key wins
SetItem(items, key, path) ==
    {e \in items : e.key # key} \cup {[key |-> key, path |-> path]}

\* the innermost loop: every listed dataset is recorded under its basename
RECURSIVE Record(_, _, _)
Record(items, datasets, i) ==
    IF i > Len(datasets) THEN items
    ELSE Record(SetItem(items, Basename(datasets[i]), datasets[i]), datasets, i + 1)

\* list_datasets is called; _load_dataset_paths builds the index only when it
\* is still None
ListDatasets ==
    /\ UNCHANGED resolverVars
    /\ pc = "idle"
    /\ call' = "list_datasets" /\ raised' = "none"
    /\ printed' = "none" /\ sessions' = 0 /\ ftp' = "closed"
    /\ FreshLoad /\ FreshDown("", <<>>, <<>>)
    /\ UNCHANGED localDirs
    /\ IF dataset_paths.isNone
       THEN /\ dataset_paths' = [isNone |-> FALSE, items |-> {}]
            /\ pc' = "l_connect" /\ ret' = "none"
       ELSE /\ UNCHANGED dataset_paths
            /\ pc' = "idle" /\ ret' = "dataset_paths"

\* with FTP(self.ftp_host) as ftp: a failed connection is raised outside the try
LoadConnect ==
    /\ UNCHANGED resolverVars
    /\ pc = "l_connect"
    /\ \E ok \in BOOLEAN : IF ok THEN Connect("l_login") ELSE Raise("OSError")
    /\ UNCHANGED <<instVars, loadVars, downVars>>

\* ftp.login()
LoadLogin ==
    /\ UNCHANGED resolverVars
    /\ pc = "l_login"
    /\ \E ok \in BOOLEAN :
          IF ok THEN Goto("l_cwd") ELSE Return("dataset_paths", "ftp")
    /\ UNCHANGED <<instVars, loadVars, downVars>>

\* ftp.cwd(self.ftp_path)
LoadCwd ==
    /\ UNCHANGED resolverVars
    /\ pc = "l_cwd"
    /\ \E ok \in BOOLEAN :
          IF ok THEN Goto("l_years") ELSE Return("dataset_paths", "ftp")
    /\ UNCHANGED <<instVars, loadVars, downVars>>

\* years = ftp.nlst()
LoadYears ==
    /\ UNCHANGED resolverVars
    /\ pc = "l_years"
    /\ \/ /\ Return("dataset_paths", "ftp")
          /\ UNCHANGED <<years, yearPos>>
       \/ /\ \E listing \in YearListings : years' = listing
          /\ yearPos' = 1
          /\ Goto("l_year")
    /\ UNCHANGED <<instVars, indices, indexPos, attempted, found, downVars>>

\* for year in years: if year == '2010': indices = ftp.nlst(year_path)
LoadYear ==
    /\ UNCHANGED resolverVars
    /\ pc = "l_year"
    /\ IF yearPos > Len(years)
       THEN /\ Return("dataset_paths", "none")
            /\ UNCHANGED <<yearPos, indices, indexPos>>
       ELSE IF years[yearPos] # "2010"
       THEN /\ yearPos' = yearPos + 1
            /\ Goto("l_year")
            /\ UNCHANGED <<indices, indexPos>>
       ELSE \/ /\ Return("dataset_paths", "ftp")
               /\ UNCHANGED <<yearPos, indices, indexPos>>
            \/ /\ \E listing \in IndexListings(Append(ftp_path, years[yearPos])) :
                     indices' = listing
               /\ indexPos' = 1
               /\ Goto("l_index")
               /\ UNCHANGED yearPos
    /\ UNCHANGED <<instVars, years, attempted, found, downVars>>

\* for index in indices: datasets = ftp.nlst(index_path), and the innermost loop
LoadIndex ==
    /\ UNCHANGED resolverVars
    /\ pc = "l_index"
    /\ IF indexPos > Len(indices)
       THEN /\ yearPos' = yearPos + 1
            /\ Goto("l_year")
            /\ UNCHANGED <<dataset_paths, indexPos, attempted, found>>
       ELSE /\ attempted' = attempted \cup {indices[indexPos]}
            /\ \/ /\ Return("dataset_paths", "ftp")
                  /\ UNCHANGED <<dataset_paths, yearPos, indexPos, found>>
               \/ \E datasets \in DatasetListings(indices[indexPos]) :
                     /\ dataset_paths' =
                            [dataset_paths EXCEPT
                                !.items = Record(dataset_paths.items, datasets, 1)]
                     /\ found' = found \cup Range(datasets)
                     /\ indexPos' = indexPos + 1
                     /\ Goto("l_index")
                     /\ UNCHANGED yearPos
    /\ UNCHANGED <<localDirs, years, indices, downVars>>

(* --------------------------- download_dataset -------------------------- *)

\* a lookup that makes up a path for a missing key instead of giving None
GetOrGuess(items, key) ==
    IF \E e \in items : e.key = key
    THEN (CHOOSE e \in items : e.key = key).path
    ELSE Append(ftp_path, key)

\* dict.get: the path stored under key, or None (here the empty path)
Get(items, key) ==
    IF \E e \in items : e.key = key
    THEN (CHOOSE e \in items : e.key = key).path
    ELSE <<>>

\* file.lower().endswith("generated")
IsGenerated(file) == EndsWith(Lower(file), GENERATED)

\* the three accepted formats select by suffix, case-insensitively
Suffix(fmt) ==
    CASE Lower(fmt) = FMT_RAW -> DOT_RAW
      [] Lower(fmt) = FMT_MGF -> DOT_MGF
      [] Lower(fmt) = FMT_MGF_GZ -> DOT_MGF_GZ
      [] OTHER -> <<>>

\* an if/elif chain without the final else
AnyFormat(fmt) == TRUE

ValidFormat(fmt) == Lower(fmt) \in {FMT_RAW, FMT_MGF, FMT_MGF_GZ}

\* [f for f in files if f.lower().endswith(suffix)]
RECURSIVE Filter(_, _)
Filter(fs, suffix) ==
    IF fs = <<>> THEN <<>>
    ELSE LET rest == Filter(Tail(fs), suffix)
         IN  IF EndsWith(Lower(Head(fs)), suffix) THEN <<Head(fs)>> \o rest
             ELSE rest

\* the local_file file of a remote name: nested under "generated" when the top-level
\* listing holds the entry "generated" itself
LocalFilename(listing, remote_filename) ==
    [nested |-> GENERATED \in Range(listing), name |-> remote_filename]

\* file_format.lower() == "mgf.gz" and local_filename.endswith(".mgf.gz")
NeedsExtract(fmt, local_file) ==
    Lower(fmt) = FMT_MGF_GZ /\ EndsWith(local_file.name, DOT_MGF_GZ)

\* local_filename[:-3]
Extracted(local_file) ==
    [local_file EXCEPT !.name = SubSeq(local_file.name, 1, Len(local_file.name) - 3)]

\* download_dataset is called: the lookup in the index
DownloadDataset(ident, fmt) ==
    /\ UNCHANGED resolverVars
    /\ pc = "idle"
    /\ call' = "download_dataset" /\ sessions' = 0 /\ ftp' = "closed"
    /\ FreshLoad
    /\ IF dataset_paths.isNone
       THEN \* None has no attribute get
            /\ pc' = "idle" /\ ret' = "none" /\ raised' = "AttributeError"
            /\ printed' = "none"
            /\ FreshDown(ident, fmt, <<>>)
       ELSE /\ raised' = "none"
            /\ FreshDown(ident, fmt, Get(dataset_paths.items, ident))
            /\ IF Get(dataset_paths.items, ident) = <<>>
               THEN pc' = "idle" /\ ret' = "False" /\ printed' = "not found"
               ELSE pc' = "d_makedirs" /\ ret' = "none" /\ printed' = "none"
    /\ UNCHANGED instVars

\* os.makedirs(local_directory, exist_ok=True), outside the try
DownloadMakedirs ==
    /\ UNCHANGED resolverVars
    /\ pc = "d_makedirs"
    /\ \E ok \in BOOLEAN :
          IF ok THEN /\ localDirs' = localDirs \cup {dataset_identifier}
                     /\ Goto("d_connect")
                ELSE /\ UNCHANGED localDirs
                     /\ Raise("OSError")
    /\ UNCHANGED <<dataset_paths, loadVars, downVars>>

\* with FTP(self.ftp_host) as ftp: a failed connection is raised outside the try
DownloadConnect ==
    /\ UNCHANGED resolverVars
    /\ pc = "d_connect"
    /\ \E ok \in BOOLEAN : IF ok THEN Connect("d_login") ELSE Raise("OSError")
    /\ UNCHANGED <<instVars, loadVars, downVars>>

\* ftp.login(); ftp.set_pasv(True)
DownloadLogin ==
    /\ UNCHANGED resolverVars
    /\ pc = "d_login"
    /\ \E ok \in BOOLEAN : IF ok THEN Goto("d_nlst") ELSE Return("False", "ftp")
    /\ UNCHANGED <<instVars, loadVars, downVars>>

\* all_files = ftp.nlst(dataset_path)
DownloadNlst ==
    /\ UNCHANGED resolverVars
    /\ pc = "d_nlst"
    /\ \/ /\ Return("False", "ftp")
          /\ UNCHANGED <<all_files, scan>>
       \/ /\ \E listing \in TopListings : all_files' = listing
          /\ scan' = 1
          /\ Goto("d_scan")
    /\ UNCHANGED <<instVars, loadVars, dataset_identifier, file_format,
                   dataset_path, files, filtered_files, next, retrLog, written,
                   failedAt>>

\* one round of: for file in all_files
ScanEntry(listing, file, generated_listing) ==
    IF IsGenerated(file)
    THEN [bound |-> TRUE, source |-> "generated", val |-> generated_listing]
    ELSE [bound |-> TRUE, source |-> "top", val |-> listing]

\* for file in all_files: the generated subdirectory is entered and listed, or
\* files is set to the top-level listing; the loop runs to the last entry
DownloadScan ==
    /\ UNCHANGED resolverVars
    /\ pc = "d_scan"
    /\ IF scan > Len(all_files)
       THEN /\ Goto("d_filter")
            /\ UNCHANGED <<scan, files>>
       ELSE IF IsGenerated(all_files[scan])
       THEN \* ftp.cwd(generated_subdirectory), the path dataset_path/generated
            \* whatever the case of the entry, then files = ftp.nlst()
            \/ /\ Return("False", "ftp")
               /\ UNCHANGED <<scan, files>>
            \/ /\ \E listing \in GeneratedListings :
                     files' = ScanEntry(all_files, all_files[scan], listing)
               /\ scan' = scan + 1
               /\ Goto("d_scan")
       ELSE /\ files' = ScanEntry(all_files, all_files[scan], <<>>)
            /\ scan' = scan + 1
            /\ Goto("d_scan")
    /\ UNCHANGED <<instVars, loadVars, dataset_identifier, file_format,
                   dataset_path, all_files, filtered_files, next, retrLog,
                   written, failedAt>>

\* the if/elif chain on file_format.lower(); an unknown format raises
\* ValueError, and files is unbound when the listing was empty
DownloadFilter ==
    /\ UNCHANGED resolverVars
    /\ pc = "d_filter"
    /\ IF ~ValidFormat(file_format)
       THEN /\ Return("False", "ValueError")
            /\ UNCHANGED <<filtered_files, next>>
       ELSE IF ~files.bound
       THEN /\ Return("False", "NameError")
            /\ UNCHANGED <<filtered_files, next>>
       ELSE /\ filtered_files' = Filter(files.val, Suffix(file_format))
            /\ next' = 1
            /\ Goto("d_transfer")
    /\ UNCHANGED <<instVars, loadVars, dataset_identifier, file_format,
                   dataset_path, all_files, scan, files, retrLog, written,
                   failedAt>>

\* what one round of the transfer loop may do
TransferOutcomes(fmt, local_file) ==
    {"ok", "open fails", "retr fails"}
    \cup (IF NeedsExtract(fmt, local_file) THEN {"gunzip fails", "remove fails"} ELSE {})

\* the local_file files after one round of the transfer loop
WrittenAfter(before, fmt, local_file, outcome) ==
    CASE outcome = "open fails" -> before
      [] outcome = "retr fails" -> before \cup {local_file}
      [] outcome \in {"gunzip fails", "remove fails"} ->
            before \cup {local_file, Extracted(local_file)}
      [] OTHER ->
            IF NeedsExtract(fmt, local_file)
            THEN (before \ {local_file}) \cup {Extracted(local_file)}
            ELSE before \cup {local_file}

\* a loop body that swallows what goes wrong after the RETR
AbortsOnTransferOnly(outcome) == outcome \in {"open fails", "retr fails"}

\* an exception in the loop body reaches the except clause of the call
Aborts(outcome) == outcome # "ok"

\* for remote_filename in filtered_files: open, RETR, and for mgf.gz gunzip and
\* remove; return True after the last file
DownloadTransfer ==
    /\ UNCHANGED resolverVars
    /\ pc = "d_transfer"
    /\ IF next > Len(filtered_files)
       THEN /\ Return("True", "none")
            /\ UNCHANGED <<next, retrLog, written, failedAt>>
       ELSE LET remote_filename == filtered_files[next]
                local_filename == LocalFilename(all_files, remote_filename)
            IN  \E outcome \in TransferOutcomes(file_format, local_filename) :
                  /\ written' = WrittenAfter(written, file_format, local_filename,
                                             outcome)
                  /\ retrLog' = IF outcome = "open fails" THEN retrLog
                                ELSE Append(retrLog, remote_filename)
                  /\ failedAt' = IF outcome = "ok" THEN failedAt ELSE next
                  /\ IF Aborts(outcome)
                     THEN /\ Return("False",
                                    IF outcome = "retr fails" THEN "ftp" ELSE "OSError")
                          /\ UNCHANGED next
                     ELSE /\ next' = next + 1
                          /\ Goto("d_transfer")
    /\ UNCHANGED <<instVars, loadVars, dataset_identifier, file_format,
                   dataset_path, all_files, scan, files, filtered_files>>

WalkerNext ==
    \/ ListDatasets \/ LoadConnect \/ LoadLogin \/ LoadCwd \/ LoadYears
    \/ LoadYear \/ LoadIndex
    \/ \E ident \in Identifiers, fmt \in Formats : DownloadDataset(ident, fmt)
    \/ DownloadMakedirs \/ DownloadConnect \/ DownloadLogin \/ DownloadNlst
    \/ DownloadScan \/ DownloadFilter \/ DownloadTransfer

(* ============================ FTPDirectory ============================= *)

(* ---- identifiers ---- *)

IsDigit(c) == c \in {"0", "1", "2", "3", "4", "5", "6", "7", "8", "9"}

\* re.match("P[RX]D[0-9]{6}", identifier): the pattern is matched at the start
\* of the string
ReMatch(identifier) ==
    /\ Len(identifier) >= 9
    /\ identifier[1] = "P"
    /\ identifier[2] \in {"R", "X"}
    /\ identifier[3] = "D"
    /\ \A i \in 4..9 : IsDigit(identifier[i])

\* the constructor arguments tried
IdPrefixes ==
    { <<"P","X","D">>, <<"p","r","d">>, <<"P","A","D">>, <<"X","P","X","D">> }
DigitRuns ==
    { <<"0","0","0","8","1">>, <<"0","0","0","8","1","7">>,
      <<"0","0","0","a","1","7">> }
Trailers == { <<>>, <<"7">>, <<"x">> }
CandidateIds == {p \o d \o t : p \in IdPrefixes, d \in DigitRuns, t \in Trailers}

(* ---- metadata ---- *)

\* URLs are sequences of pieces, cut where the rewrite rules apply
Href1 == <<"ftp://ftp.", "pride.", "ebi.ac.uk/pride", "/data/", "archive/2010/01/PRD000817">>
Href2 == <<"ftp://ftp.", "ebi.ac.uk/pride", "/data/", "archive/2010/01/PRD000817">>

\* the JSON bodies the REST endpoint or the cache file may hold; an empty href
\* is a body without the datasetFtpUrl link
Bodies ==
    { [title |-> "fresh", href |-> Href1], [title |-> "stale", href |-> Href2],
      [title |-> "bare", href |-> <<>>] }

NoBody == [title |-> "", href |-> <<>>]
None == [isNone |-> TRUE, body |-> NoBody]
Some(b) == [isNone |-> FALSE, body |-> b]
NoFile == [exists |-> FALSE, body |-> NoBody]
File(b) == [exists |-> TRUE, body |-> b]
NoGet == [kind |-> "none", body |-> NoBody]

\* what requests.get may do: a 200 with a body, another status, no connection
GetOutcomes ==
    {[kind |-> "ok", body |-> b] : b \in Bodies}
    \cup {[kind |-> "HTTPError", body |-> NoBody],
          [kind |-> "ConnectionError", body |-> NoBody]}

\* the assert left out: the GET is made whether or not a cache file exists
AssertStripped(cch, ftch) == FALSE

\* if metadata_file.exists(): assert self.fetch, and the except clause that
\* reads the file: an existing cache is used without a GET unless fetch is set
AssertFails(cch, ftch) == cch.exists /\ ~ftch

\* the metadata property. get is the outcome of the REST GET, should it be made.
\* Gives the new _metadata and cache file, what is returned or raised, and the
\* GET made.
Metadata(meta, loc, cch, ftch, get) ==
    IF ~meta.isNone
    THEN [meta |-> meta, cache |-> cch, ret |-> meta, raised |-> "none",
          get |-> NoGet]
    ELSE IF loc = "unset"
    THEN \* self.local is not an attribute of the instance
         [meta |-> None, cache |-> cch, ret |-> None, raised |-> "AttributeError",
          get |-> NoGet]
    ELSE IF AssertFails(cch, ftch)
    THEN [meta |-> Some(cch.body), cache |-> cch, ret |-> Some(cch.body),
          raised |-> "none", get |-> NoGet]
    ELSE IF get.kind = "ok"
    THEN [meta |-> Some(get.body), cache |-> File(get.body),
          ret |-> Some(get.body), raised |-> "none", get |-> get]
    ELSE IF get.kind = "ConnectionError" /\ cch.exists
    THEN [meta |-> Some(cch.body), cache |-> cch, ret |-> Some(cch.body),
          raised |-> "none", get |-> get]
    ELSE [meta |-> None, cache |-> cch, ret |-> None, raised |-> get.kind,
          get |-> get]

(* ---- url ---- *)

\* str.replace(old, new) on a URL in pieces; replacing "" by "" changes nothing
RECURSIVE Replace(_, _, _)
Replace(url, old, new) ==
    IF url = <<>> \/ old = "" THEN url
    ELSE LET rest == Replace(Tail(url), old, new)
         IN  IF Head(url) # old THEN <<Head(url)>> \o rest
             ELSE IF new = "" THEN rest
             ELSE <<new>> \o rest

fixes == << <<"", "">>, <<"/data/", "-">>, <<"pride.", "">> >>

\* the URL probed in round i of the loop: the fixes accumulate
RECURSIVE Candidate(_, _)
Candidate(url, i) ==
    IF i = 0 THEN url
    ELSE Replace(Candidate(url, i - 1), fixes[i][1], fixes[i][2])

ProbeOutcomes == {"ok", "HTTPError", "ConnectionError"}

\* except requests.HTTPError: the only failure after which the loop goes on
Caught(outcome) == outcome = "HTTPError"

\* the number of rounds the loop makes, given the outcome of each probe
RECURSIVE Rounds(_, _)
Rounds(oracle, i) ==
    IF i = Len(fixes) \/ ~Caught(oracle[i]) THEN i
    ELSE Rounds(oracle, i + 1)

(* ---- the instance ---- *)

ResolverInit ==
    /\ project = "none" /\ pride_id = <<>> /\ id = <<>> /\ fetch = FALSE
    /\ local = "unset" /\ cache = NoFile /\ _metadata = None /\ _url = <<>>
    /\ access = "none" /\ r_raised = "none" /\ r_url = <<>>
    /\ m_first = FALSE /\ m_ret = None /\ cacheBefore = NoFile
    /\ lastGet = NoGet /\ probes = <<>> /\ outcomes = <<>>

\* FTPDirectory(pride_id, fetch=f): _validate_id runs first
Construct(identifier, f) ==
    /\ UNCHANGED walkerVars
    /\ project = "none"
    /\ pride_id' = identifier
    /\ access' = "__init__"
    /\ IF ReMatch(Upper(identifier))
       THEN /\ project' = "constructed" /\ id' = Upper(identifier)
            /\ fetch' = f /\ r_raised' = "none"
       ELSE /\ project' = "rejected" /\ r_raised' = "ValueError"
            /\ UNCHANGED <<id, fetch>>
    /\ UNCHANGED <<local, cache, _metadata, _url, r_url, m_first, m_ret,
                   cacheBefore, lastGet, probes, outcomes>>

\* the constructor ignores its local argument and the class defines no local
\* attribute: the metadata property finds one only after the caller has set
\* project.local to a directory, which holds a cache file or none
AssignLocal(c) ==
    /\ UNCHANGED walkerVars
    /\ project = "constructed" /\ local = "unset"
    /\ local' = "set" /\ cache' = c
    /\ UNCHANGED <<project, pride_id, id, fetch, _metadata, _url, access,
                   r_raised, r_url, m_first, m_ret, cacheBefore, lastGet, probes,
                   outcomes>>

\* project.metadata (title, description, doi and the protocols read it too)
AccessMetadata ==
    /\ UNCHANGED walkerVars
    /\ project = "constructed"
    /\ \E get \in GetOutcomes :
          LET r == Metadata(_metadata, local, cache, fetch, get)
          IN  /\ _metadata' = r.meta /\ cache' = r.cache
              /\ m_ret' = r.ret /\ r_raised' = r.raised /\ lastGet' = r.get
    /\ access' = "metadata" /\ m_first' = _metadata.isNone
    /\ cacheBefore' = cache
    /\ r_url' = <<>> /\ probes' = <<>> /\ outcomes' = <<>>
    /\ UNCHANGED <<project, pride_id, id, fetch, local, _url>>

\* project.url: the stored URL, or the metadata's link probed under each fix
AccessUrl ==
    /\ UNCHANGED walkerVars
    /\ project = "constructed"
    /\ access' = "url" /\ cacheBefore' = cache
    /\ IF _url # <<>>
       THEN /\ r_url' = _url /\ r_raised' = "none"
            /\ m_first' = FALSE /\ m_ret' = None /\ lastGet' = NoGet
            /\ probes' = <<>> /\ outcomes' = <<>>
            /\ UNCHANGED <<_metadata, cache, _url>>
       ELSE \E get \in GetOutcomes, oracle \in [1..Len(fixes) -> ProbeOutcomes] :
              LET r == Metadata(_metadata, local, cache, fetch, get)
                  url == r.ret.body.href
                  n == Rounds(oracle, 1)
              IN  /\ _metadata' = r.meta /\ cache' = r.cache
                  /\ m_first' = _metadata.isNone
                  /\ m_ret' = r.ret /\ lastGet' = r.get
                  /\ IF r.raised # "none"
                     THEN /\ r_raised' = r.raised
                          /\ r_url' = <<>> /\ probes' = <<>> /\ outcomes' = <<>>
                          /\ UNCHANGED _url
                     ELSE IF url = <<>>
                     THEN \* self.metadata["_links"]["datasetFtpUrl"]
                          /\ r_raised' = "KeyError"
                          /\ r_url' = <<>> /\ probes' = <<>> /\ outcomes' = <<>>
                          /\ UNCHANGED _url
                     ELSE /\ probes' = [i \in 1..n |-> Candidate(url, i)]
                          /\ outcomes' = SubSeq(oracle, 1, n)
                          /\ IF oracle[n] = "ok"
                             THEN /\ _url' = Candidate(url, n)
                                  /\ r_url' = Candidate(url, n)
                                  /\ r_raised' = "none"
                             ELSE /\ r_raised' = oracle[n]
                                  /\ r_url' = <<>>
                                  /\ UNCHANGED _url
    /\ UNCHANGED <<project, pride_id, id, fetch, local>>

ResolverNext ==
    \/ \E identifier \in CandidateIds, f \in BOOLEAN : Construct(identifier, f)
    \/ \E c \in {NoFile} \cup {File(b) : b \in Bodies} : AssignLocal(c)
    \/ AccessMetadata
    \/ AccessUrl

(* ============================ specifications =========================== *)

vars == <<walkerVars, resolverVars>>

Init == WalkerInit /\ ResolverInit

\* a PRIDEUtility instance and its callers
WalkerSpec == Init /\ [][WalkerNext]_vars

\* an FTPDirectory instance and its callers
ResolverSpec == Init /\ [][ResolverNext]_vars

(* ================================ claims =============================== *)

HasKey(items, key) == \E e \in items : e.key = key
HasGenerated(listing) == \E i \in 1..Len(listing) : IsGenerated(listing[i])
Downloading == call = "download_dataset"
Returned == pc = "idle"
AcceptedFormats == {FMT_RAW, FMT_MGF, FMT_MGF_GZ}

\* C1: whenever the top-level listing of the dataset holds an entry ending in
\* "generated" (any case, at any position), the names download_dataset filters
\* and transfers are those of the generated subdirectory's listing.
C1_FilesFromGenerated ==
    (Downloading /\ pc = "d_transfer" /\ HasGenerated(all_files))
        => files.source = "generated"

\* C2: when download_dataset with format mgf.gz (any case) has returned True,
\* no local file written by the call has a name ending in .mgf.gz (any case).
C2_NoGzResidue ==
    (Downloading /\ Returned /\ ret = "True" /\ Lower(file_format) = FMT_MGF_GZ)
        => \A f \in written : ~EndsWith(Lower(f.name), DOT_MGF_GZ)

IsIdentifier(s) ==
    /\ Len(s) = 9
    /\ s[1] = "P" /\ s[2] \in {"R", "X"} /\ s[3] = "D"
    /\ \A i \in 4..9 : IsDigit(s[i])

\* C4: the constructor fails with the malformed-identifier error for every
\* string that, uppercased, is not exactly P, R or X, D and six digits.
C4_RejectsNonIdentifiers ==
    (project # "none" /\ ~IsIdentifier(Upper(pride_id)))
        => (project = "rejected" /\ (access = "__init__" => r_raised = "ValueError"))

\* C5: the url property probes the candidates in rule order and returns the
\* first that answers; it raises only after every candidate was probed and
\* failed, and raises the last candidate's failure, whatever the kind of the
\* failures; a failed resolution leaves the stored URL unset.
C5_RaisesAfterAllCandidates ==
    (access = "url" /\ probes # <<>>) =>
        /\ \A i \in 1..Len(probes) : probes[i] = Candidate(m_ret.body.href, i)
        /\ \A i \in 1..(Len(probes) - 1) : outcomes[i] # "ok"
        /\ r_raised = "none" =>
              /\ outcomes[Len(probes)] = "ok"
              /\ r_url = probes[Len(probes)] /\ _url = r_url
        /\ r_raised # "none" =>
              /\ Len(probes) = Len(fixes)
              /\ r_raised = outcomes[Len(fixes)]
              /\ _url = <<>>

\* C6 as stated: for a format other than raw, mgf and mgf.gz, download_dataset
\* of an indexed dataset fails with the invalid-format error, issues no RETR
\* and writes no local file.  (Stated of the calls that return: the calls an
\* exception leaves are the subject of C9.)
C6_InvalidFormatError ==
    (Downloading /\ dataset_path # <<>> /\ Lower(file_format) \notin AcceptedFormats)
        => /\ retrLog = <<>> /\ written = {}
           /\ (Returned /\ raised = "none") =>
                 (ret = "False" /\ printed = "ValueError")

\* C6 as amended: for such a format download_dataset of an indexed dataset
\* issues no RETR, writes no local file and never returns True; it reports the
\* invalid-format error when the local directory was created, the session was
\* opened and the login and every listing and directory change succeeded, and
\* the error of the step that failed otherwise.
C6_InvalidFormatNoTransfer ==
    (Downloading /\ dataset_path # <<>> /\ Lower(file_format) \notin AcceptedFormats)
        => /\ retrLog = <<>> /\ written = {}
           /\ ret # "True"
           /\ pc \notin {"d_transfer"}
           /\ (Returned /\ scan = Len(all_files) + 1) =>
                 (ret = "False" /\ printed = "ValueError" /\ raised = "none")
           /\ (Returned /\ scan # Len(all_files) + 1) =>
                 \/ ret = "False" /\ printed = "ftp"
                 \/ ret = "none" /\ raised = "OSError"

C6_Witness ==
    /\ Downloading /\ Returned /\ Lower(file_format) \notin AcceptedFormats
    /\ all_files # <<>> /\ ret = "False" /\ printed = "ValueError"
    /\ retrLog = <<>> /\ written = {}

\* C7: once the index is built, a download_dataset call for an identifier that
\* is no key of the index returns False at once: no FTP session is opened, no
\* local directory is created and the index is unchanged.
C7_AbsentIdNoEffect ==
    [][ ( /\ pc = "idle" /\ call' = "download_dataset"
          /\ ~dataset_paths.isNone
          /\ ~HasKey(dataset_paths.items, dataset_identifier') )
        => ( /\ pc' = "idle" /\ ret' = "False" /\ raised' = "none"
             /\ sessions' = 0 /\ ftp' = "closed"
             /\ localDirs' = localDirs
             /\ dataset_paths' = dataset_paths ) ]_vars

C7_Witness ==
    /\ Downloading /\ Returned /\ ret = "False" /\ printed = "not found"
    /\ dataset_paths.items # {}
    /\ ~HasKey(dataset_paths.items, dataset_identifier)
    /\ sessions = 0 /\ localDirs = {}

\* C8: when list_datasets returns after building the index, every index
\* directory of the year has been listed (the walk went on after an error) and
\* every dataset the server listed is a key of the index.
C8_WalkContinues ==
    (call = "list_datasets" /\ Returned /\ ret = "dataset_paths") =>
        /\ \A i \in 1..Len(indices) : indices[i] \in attempted
        /\ \A d \in found : HasKey(dataset_paths.items, Basename(d))

\* C9: download_dataset returns a boolean and raises nothing, in every state of
\* the instance; called before the index is built it returns False.
C9_AlwaysReturnsBool ==
    (Downloading /\ Returned) =>
        /\ raised = "none"
        /\ ret \in {"True", "False"}
        /\ dataset_paths.isNone => ret = "False"

\* C10: the selected files are retrieved one after another in listing order;
\* when the transfer or decompression of a file fails no later file is
\* retrieved, the call returns False, and the session is closed on return.
C10_SequentialAbort ==
    Downloading =>
        /\ Len(retrLog) <= Len(filtered_files)
        /\ retrLog = SubSeq(filtered_files, 1, Len(retrLog))
        /\ pc = "d_transfer" => Len(retrLog) = next - 1
        /\ \A i, j \in 1..Len(filtered_files) :
              i < j => \E k, l \in 1..Len(files.val) :
                          /\ k < l
                          /\ files.val[k] = filtered_files[i]
                          /\ files.val[l] = filtered_files[j]
        /\ failedAt > 0 =>
              /\ Returned /\ ret = "False" /\ raised = "none"
              /\ Len(retrLog) <= failedAt
        /\ Returned => ftp = "closed"

C10_Witness ==
    /\ Downloading /\ Returned /\ sessions = 1 /\ ftp = "closed"
    /\ Len(filtered_files) = 2 /\ failedAt = 1 /\ Len(retrLog) = 1
    /\ ret = "False"

====
